---- MODULE Spec2Model ----
(***************************************************************************)
(* Model of contrib/tsperf/energy_utils/feature_engineering/               *)
(* feature_utils.py: the moving-aggregate, lag, sequence-array and         *)
(* normalisation utilities.                                                *)
(*                                                                         *)
(* Every library function is a pure function of its arguments (apart from  *)
(* the default scaler of normalize_columns, a module-level object).  A     *)
(* behaviour draws one call (fn, args) in Init and the function's action   *)
(* applies it, leaving its return value or the raised exception in         *)
(* `result`.                                                               *)
(*                                                                         *)
(* Conventions                                                             *)
(*   - timestamps of the moving-aggregate and lag functions are integers   *)
(*     counting hours from an arbitrary origin; forecast_creation_time is  *)
(*     counted in half hours (fct2) so that cutoffs between two hourly     *)
(*     rows are representable; quantities in half hours end in 2.          *)
(*   - a cell of a frame is NaN (<<>>) or Num(v) (<<v>>).                   *)
(*   - an unrounded float is the exact rational <<num, den>>, den > 0.     *)
(***************************************************************************)
EXTENDS Integers, Sequences, FiniteSets, TLC

VARIABLES
    fn,        \* name of the library function being called
    args,      \* its arguments (a record)
    pc,        \* "ready" before the call, "done" after it
    result,    \* the value returned, or the exception raised
    scalers,   \* the scaler objects alive: scalers[1] is the default argument
               \* of normalize_columns, made once when the function is defined
    returned   \* what the calls of normalize_columns so far have returned

vars == <<fn, args, pc, result, scalers, returned>>

----------------------------------------------------------------------------
(* Bounds of the model *)

MaxStartWeek == 1
MaxWindow == 2
MaxCount == 2
MaxFctWeeks == 1
MaxYears == 2
MaxLagWindow == 1
MaxEntities == 3
MaxRows == 3
MaxSeqLen == 3
MaxNormRows == 2
MaxCalls == 2

\* day_type: days of a call with a holiday indicator, largest
\* semi_holiday_offset in half days, days of a call without an indicator
MaxHolidayDays == 4
MaxOffset2 == 4
MaxPlainDays == 15

\* time_of_year: hours of a column
MaxHours == 3

\* normalized_columns: rows of a call
MaxColumnRows == 3

\* lag functions called with windows around the base period: rows of a series
MaxShortRows == 3

\* gen_sequence called on its own: rows of the table
MaxGenRows == 5

\* rows beyond one week of the series handed over out of order
MaxOrderRows == 2

----------------------------------------------------------------------------
(* Cells, rationals, rounding and the three aggregations *)

NaN == <<>>
Num(v) == <<v>>
IsNum(c) == Len(c) = 1

\* q = None: no quantile given (a given quantile is a rational <<qn, qd>>)
None == <<>>

Returned(r) == r.raised = "none"

RECURSIVE SumSeq(_)
SumSeq(xs) == IF xs = <<>> THEN 0 ELSE Head(xs) + SumSeq(Tail(xs))

RECURSIVE SumSquares(_)
SumSquares(xs) == IF xs = <<>> THEN 0 ELSE Head(xs) * Head(xs) + SumSquares(Tail(xs))

RECURSIVE InsertAsc(_, _)
InsertAsc(x, xs) ==
    IF xs = <<>> THEN <<x>>
    ELSE IF x <= Head(xs) THEN <<x>> \o xs
    ELSE <<Head(xs)>> \o InsertAsc(x, Tail(xs))

RECURSIVE SortAsc(_)
SortAsc(xs) == IF xs = <<>> THEN <<>> ELSE InsertAsc(Head(xs), SortAsc(Tail(xs)))

\* numpy.round on num/den (den > 0): the nearest integer, ties to the even one
RoundHalfEven(num, den) ==
    LET fl == num \div den
        rem2 == 2 * (num - fl * den)
    IN  IF rem2 < den THEN fl
        ELSE IF rem2 > den THEN fl + 1
        ELSE IF fl % 2 = 0 THEN fl ELSE fl + 1

\* round(<Series>) of the code: NaN stays NaN
Round(r) == IF r = NaN THEN NaN ELSE Num(RoundHalfEven(r[1], r[2]))

\* DataFrame.mean(axis=1) on one row: xs are the row's non-missing values
Mean(xs) == IF xs = <<>> THEN NaN ELSE <<SumSeq(xs), Len(xs)>>

\* DataFrame.quantile(q, axis=1) on one row, linear interpolation, q = <<qn, qd>>
Quantile(xs, q) ==
    IF xs = <<>> THEN NaN
    ELSE LET s == SortAsc(xs)
             pos == (Len(xs) - 1) * q[1]
             lo == pos \div q[2]
             frac == pos - lo * q[2]
             hi == IF frac = 0 THEN lo ELSE lo + 1
         IN  <<s[lo + 1] * q[2] + (s[hi + 1] - s[lo + 1]) * frac, q[2]>>

\* round(DataFrame.std(axis=1)) on one row: sample standard deviation (ddof = 1),
\* NaN with fewer than two values.  The variance is vn / vd; `up` is its root
\* rounded half up, and a root of exactly up - 1/2 goes to the even neighbour.
RoundStd(xs) ==
    IF Len(xs) < 2 THEN NaN
    ELSE LET n == Len(xs)
             vn == n * SumSquares(xs) - SumSeq(xs) * SumSeq(xs)
             vd == n * (n - 1)
             up == CHOOSE j \in 0..(vn + 1) :
                       /\ 4 * vn < (2 * j + 1) * (2 * j + 1) * vd
                       /\ j = 0 \/ 4 * vn >= (2 * j - 1) * (2 * j - 1) * vd
             tie == up > 0 /\ 4 * vn = (2 * up - 1) * (2 * up - 1) * vd
         IN  Num(IF tie /\ up % 2 = 1 THEN up - 1 ELSE up)

\* a dispatch that ignores q when agg_func is "mean"
Pairing_IgnoresQ(agg_func, q) ==
    IF agg_func = "mean" THEN "mean"
    ELSE IF agg_func = "quantile" /\ q # None THEN "quantile"
    ELSE IF agg_func = "std" /\ q = None THEN "std"
    ELSE "unsupported"

\* the if / elif chain on (agg_func, q): the branch taken, "unsupported" when
\* none is
Pairing(agg_func, q) ==
    IF agg_func = "mean" /\ q = None THEN "mean"
    ELSE IF agg_func = "quantile" /\ q # None THEN "quantile"
    ELSE IF agg_func = "std" /\ q = None THEN "std"
    ELSE "unsupported"

Aggregate(branch, q, xs) ==
    IF branch = "mean" THEN Round(Mean(xs))
    ELSE IF branch = "quantile" THEN Round(Quantile(xs, q))
    ELSE RoundStd(xs)

----------------------------------------------------------------------------
(* Input series *)

\* value observed at hour t in the series generated from `seed`
Val(seed, t) == ((t \div 168) * (seed + 2) + (t \div 24) * 3 + (t % 24) * seed + seed) % 11

\* the order in which a series hands over its rows: the place, in ascending
\* timestamp order, of the row given i-th
RowOrder(order, n, i) ==
    CASE order = "ascending" -> i
      [] order = "descending" -> n + 1 - i
      [] order = "inner_swapped" ->
            IF n >= 4 /\ i = 2 THEN 3 ELSE IF n >= 4 /\ i = 3 THEN 2 ELSE i
      [] order = "last_second" ->
            IF n < 3 \/ i = 1 THEN i ELSE IF i = 2 THEN n ELSE i - 1

DatetimeCol(s) == [i \in 1..s.n |-> s.min + (RowOrder(s.order, s.n, i) - 1) * s.freq]
ValueCol(s) ==
    [i \in 1..s.n |-> Val(s.seed, s.min + (RowOrder(s.order, s.n, i) - 1) * s.freq)]

\* min(col[lo..hi]) and max(col[lo..hi]), by halving
RECURSIVE MinOf(_, _, _)
MinOf(col, lo, hi) ==
    IF lo = hi THEN col[lo]
    ELSE LET mid == (lo + hi) \div 2
             a == MinOf(col, lo, mid)
             b == MinOf(col, mid + 1, hi)
         IN  IF a <= b THEN a ELSE b

RECURSIVE MaxOf(_, _, _)
MaxOf(col, lo, hi) ==
    IF lo = hi THEN col[lo]
    ELSE LET mid == (lo + hi) \div 2
             a == MaxOf(col, lo, mid)
             b == MaxOf(col, mid + 1, hi)
         IN  IF a >= b THEN a ELSE b

----------------------------------------------------------------------------
(* The frame of the same_day_hour_moving_* functions *)

\* asfreq builds the new index as date_range(start, end, freq): pandas
\* releases from 1.3 on take the smallest and largest label for start and
\* end, earlier releases the first and the last label of the index
AsfreqBuilds == {"min_max", "first_last"}

\* pd.DataFrame({"Datetime": ..., "value": ...}).set_index("Datetime")
\* .asfreq("H"), then sort_index: the rows are the hours lo..hi in ascending
\* order (none when hi < lo), an hour absent from datetime_col has a NaN
\* value.  Row positions count from 0.  The reindexed frame is monotonic,
\* so that the sort_index after it changes nothing.
HourlyFrame(datetime_col, value_col, build) ==
    LET n == Len(datetime_col)
        lo == IF build = "min_max" THEN MinOf(datetime_col, 1, n) ELSE datetime_col[1]
        hi == IF build = "min_max" THEN MaxOf(datetime_col, 1, n) ELSE datetime_col[n]
        RowOf(t) == IF t - lo + 1 <= n /\ datetime_col[t - lo + 1] = t
                    THEN {t - lo + 1}
                    ELSE {i \in 1..n : datetime_col[i] = t}
    IN  [lo |-> lo,
         n |-> IF hi < lo THEN 0 ELSE hi - lo + 1,
         value |-> [p \in 0..(hi - lo) |->
                       LET rows == RowOf(lo + p)
                       IN  IF rows = {} THEN NaN
                           ELSE Num(value_col[CHOOSE i \in rows : TRUE])]]

\* df["fct_diff"] = df.index - forecast_creation_time, in hours; here twice that
FctDiff2(t, fct2) == 2 * t - fct2

\* max(df["fct_diff"]): the frame is sorted, the last row has the largest
MaxDiff2(frame, fct2) == FctDiff2(frame.lo + frame.n - 1, fct2)

\* a lag list that starts one week too far back
HourLags_OffByOne(week_lag_start, window_size) ==
    [k \in 1..window_size |-> (week_lag_start + k) * 24 * 7]

\* hour_lags = [(week_lag_start + w) * 24 * 7 for w in range(window_size)]
HourLags(week_lag_start, window_size) ==
    [k \in 1..window_size |-> (week_lag_start + (k - 1)) * 24 * 7]

\* a cutoff test that lets through the lag landing exactly on the cutoff
ClearsCutoff_NotStrict(h, max_diff2) == 2 * h >= max_diff2

\* hour_lags = [h for h in hour_lags if h > max_diff]
ClearsCutoff(h, max_diff2) == 2 * h > max_diff2

ValidLags(hour_lags, max_diff2) ==
    SelectSeq(hour_lags, LAMBDA h : ClearsCutoff(h, max_diff2))

\* tmp_df["value"].shift(h) at row position p
Shift(frame, h, p) ==
    IF p - h >= 0 /\ p - h < frame.n THEN frame.value[p - h] ELSE NaN

\* the non-missing cells of row p of tmp_df[tmp_col_all]
RECURSIVE RowValues(_, _, _)
RowValues(frame, lags, p) ==
    IF lags = <<>> THEN <<>>
    ELSE LET c == Shift(frame, Head(lags), p)
         IN  (IF IsNum(c) THEN <<c[1]>> ELSE <<>>) \o RowValues(frame, Tail(lags), p)

\* round(tmp_df[tmp_col_all].<branch>(axis=1)): one output column.  `lags`
\* records which shifted columns were aggregated.
OutputColumn(frame, name, lags, branch, q) ==
    [name |-> name,
     lags |-> lags,
     values |-> [p \in 0..(frame.n - 1) |-> Aggregate(branch, q, RowValues(frame, lags, p))]]

\* df[output_col] = ...: replaces the column of that name or appends one
SetColumn(cols, col) ==
    IF \E j \in 1..Len(cols) : cols[j].name = col.name
    THEN [j \in 1..Len(cols) |-> IF cols[j].name = col.name THEN col ELSE cols[j]]
    ELSE Append(cols, col)

Unbound == [bound |-> FALSE, lags |-> <<>>]
Bound(lags) == [bound |-> TRUE, lags |-> lags]

Raise(exc) == [raised |-> exc, lo |-> 0, n |-> 0, columns |-> <<>>]
ReturnFrame(frame, cols) == [raised |-> "none", lo |-> frame.lo, n |-> frame.n, columns |-> cols]

\* One pass of `for i in range(count)` of the four same_day_hour_moving_*
\* functions, from iteration i on.  tmp is the binding of the locals tmp_df /
\* tmp_col_all left by the iterations before (Unbound before the first
\* assignment).  `guarded` says whether the df[output_col] assignment stands
\* inside `if len(hour_lags) > 0` (average, std) or after it (quantile, agg);
\* branch is the aggregation the call's arguments select.
RECURSIVE MovingLoop(_, _, _, _, _, _, _, _, _, _, _)
MovingLoop(frame, window_size, start_week, count, fct2, output_col_prefix, guarded, branch, q, i, st) ==
    IF i = count \/ st.raised # "none" THEN st
    ELSE LET output_col == [prefix |-> output_col_prefix, week |-> start_week + i]
             week_lag_start == start_week + i
             hour_lags == ValidLags(HourLags(week_lag_start, window_size),
                                    MaxDiff2(frame, fct2))
             tmp == IF Len(hour_lags) > 0 THEN Bound(hour_lags) ELSE st.tmp
             assigns == branch # "unsupported" /\ (~guarded \/ Len(hour_lags) > 0)
             next == IF ~assigns THEN [st EXCEPT !.tmp = tmp]
                     ELSE IF ~tmp.bound
                          THEN [st EXCEPT !.raised = "UnboundLocalError"]
                          ELSE [st EXCEPT !.tmp = tmp,
                                          !.columns = SetColumn(@,
                                              OutputColumn(frame, output_col, tmp.lags, branch, q))]
         IN  MovingLoop(frame, window_size, start_week, count, fct2,
                        output_col_prefix, guarded, branch, q, i + 1, next)

\* the part the four functions share: build the frame, run the loop, drop the
\* helper columns and return the frame (or propagate the exception)
MovingFeatures(datetime_col, value_col, window_size, start_week, count, fct2, output_col_prefix, guarded, branch, q, build) ==
    LET frame == HourlyFrame(datetime_col, value_col, build)
        st == MovingLoop(frame, window_size, start_week, count, fct2,
                         output_col_prefix, guarded, branch, q, 0,
                         [raised |-> "none", tmp |-> Unbound, columns |-> <<>>])
    IN  \* max(df["fct_diff"]) of a frame without rows
        IF frame.n = 0 THEN Raise("ValueError")
        ELSE IF st.raised # "none" THEN Raise(st.raised)
        ELSE ReturnFrame(frame, st.columns)

same_day_hour_moving_average(datetime_col, value_col, window_size, start_week, average_count, fct2, output_col_prefix, build) ==
    MovingFeatures(datetime_col, value_col, window_size, start_week, average_count,
                   fct2, output_col_prefix, TRUE, "mean", None, build)

same_day_hour_moving_quantile(datetime_col, value_col, window_size, start_week, quantile_count, q, fct2, output_col_prefix, build) ==
    MovingFeatures(datetime_col, value_col, window_size, start_week, quantile_count,
                   fct2, output_col_prefix, FALSE, "quantile", q, build)

same_day_hour_moving_std(datetime_col, value_col, window_size, start_week, std_count, fct2, output_col_prefix, build) ==
    MovingFeatures(datetime_col, value_col, window_size, start_week, std_count,
                   fct2, output_col_prefix, TRUE, "std", None, build)

same_day_hour_moving_agg(datetime_col, value_col, window_size, start_week, count, fct2, agg_func, q, output_col_prefix, build) ==
    MovingFeatures(datetime_col, value_col, window_size, start_week, count,
                   fct2, output_col_prefix, FALSE, Pairing(agg_func, q), q, build)

----------------------------------------------------------------------------
(* Calls of the moving-aggregate functions *)

MovingFns == {"same_day_hour_moving_average", "same_day_hour_moving_quantile",
              "same_day_hour_moving_std", "same_day_hour_moving_agg"}

\* gap-free hourly series: one too short for any week lag, one of two weeks,
\* one of three weeks
MovingSeries == {[min |-> 0, n |-> 3, freq |-> 1, seed |-> 1, order |-> "ascending"],
                 [min |-> 5, n |-> 345, freq |-> 1, seed |-> 3, order |-> "ascending"],
                 [min |-> 2, n |-> 520, freq |-> 1, seed |-> 7, order |-> "ascending"]}

LastHour(s) == s.min + (s.n - 1) * s.freq

\* forecast creation times: k weeks before the last row, half an hour
\* earlier, exactly then, or half an hour later
FctChoices(s) == {2 * (LastHour(s) - k * 24 * 7) + d : k \in 0..MaxFctWeeks, d \in {-1, 0, 1}}

\* the (agg_func, q) arguments tried: the three accepted pairings and three others
AggPairs == {<<"mean", None>>, <<"quantile", <<1, 2>>>>, <<"std", None>>,
             <<"quantile", None>>, <<"mean", <<1, 2>>>>, <<"median", None>>}

Quantiles == {<<1, 2>>, <<1, 1>>}

AggArgs(f) ==
    IF f = "same_day_hour_moving_average" THEN {<<"mean", None>>}
    ELSE IF f = "same_day_hour_moving_std" THEN {<<"std", None>>}
    ELSE IF f = "same_day_hour_moving_quantile" THEN {<<"quantile", q>> : q \in Quantiles}
    ELSE AggPairs

Prefix(f) ==
    IF f = "same_day_hour_moving_average" THEN "moving_average_lag_"
    ELSE IF f = "same_day_hour_moving_std" THEN "moving_std_lag_"
    ELSE IF f = "same_day_hour_moving_quantile" THEN "moving_quatile_lag_"
    ELSE "moving_agg_lag_"

NotCalled == [raised |-> "not called"]

\* a MinMaxScaler before its first fit
Unfitted == <<>>

\* the library as imported: the default scaler exists and is unfitted, no
\* call has returned
Imported == scalers = <<Unfitted>> /\ returned = <<>>

MovingArgs(f) ==
    {[series |-> s, window_size |-> ws, start_week |-> sw, count |-> c,
      fct2 |-> 0, agg_func |-> aq[1], q |-> aq[2], output_col_prefix |-> Prefix(f)] :
        s \in MovingSeries, ws \in 0..MaxWindow, sw \in 0..MaxStartWeek,
        c \in 0..MaxCount, aq \in AggArgs(f)}

InitMoving ==
    /\ fn \in MovingFns
    /\ \E a \in MovingArgs(fn) : \E t \in FctChoices(a.series) :
           args = [a EXCEPT !.fct2 = t]
    /\ pc = "ready"
    /\ result = NotCalled
    /\ Imported

Call_same_day_hour_moving_average ==
    /\ pc = "ready" /\ fn = "same_day_hour_moving_average"
    /\ \E build \in AsfreqBuilds :
          result' = same_day_hour_moving_average(
                      DatetimeCol(args.series), ValueCol(args.series),
                      args.window_size, args.start_week, args.count, args.fct2,
                      args.output_col_prefix, build)
    /\ pc' = "done"
    /\ UNCHANGED <<fn, args, scalers, returned>>

Call_same_day_hour_moving_quantile ==
    /\ pc = "ready" /\ fn = "same_day_hour_moving_quantile"
    /\ \E build \in AsfreqBuilds :
          result' = same_day_hour_moving_quantile(
                      DatetimeCol(args.series), ValueCol(args.series),
                      args.window_size, args.start_week, args.count, args.q,
                      args.fct2, args.output_col_prefix, build)
    /\ pc' = "done"
    /\ UNCHANGED <<fn, args, scalers, returned>>

Call_same_day_hour_moving_std ==
    /\ pc = "ready" /\ fn = "same_day_hour_moving_std"
    /\ \E build \in AsfreqBuilds :
          result' = same_day_hour_moving_std(
                      DatetimeCol(args.series), ValueCol(args.series),
                      args.window_size, args.start_week, args.count, args.fct2,
                      args.output_col_prefix, build)
    /\ pc' = "done"
    /\ UNCHANGED <<fn, args, scalers, returned>>

Call_same_day_hour_moving_agg ==
    /\ pc = "ready" /\ fn = "same_day_hour_moving_agg"
    /\ \E build \in AsfreqBuilds :
          result' = same_day_hour_moving_agg(
                      DatetimeCol(args.series), ValueCol(args.series),
                      args.window_size, args.start_week, args.count, args.fct2,
                      args.agg_func, args.q, args.output_col_prefix, build)
    /\ pc' = "done"
    /\ UNCHANGED <<fn, args, scalers, returned>>

NextMoving ==
    \/ Call_same_day_hour_moving_average
    \/ Call_same_day_hour_moving_quantile
    \/ Call_same_day_hour_moving_std
    \/ Call_same_day_hour_moving_agg

SpecMoving == InitMoving /\ [][NextMoving]_vars

----------------------------------------------------------------------------
(* same_week_day_hour_lag and same_day_hour_lag *)

\* the rows of datetime_col labelled t.  Timestamps are unique, so a row
\* found at the position a regularly sampled ascending column would have it
\* is the only one; otherwise every row is compared.
RowsLabelled(datetime_col, t) ==
    LET n == Len(datetime_col)
        step == IF n >= 2 THEN datetime_col[2] - datetime_col[1] ELSE 0
        guess == IF step > 0 THEN 1 + (t - datetime_col[1]) \div step ELSE 1
    IN  IF guess >= 1 /\ guess <= n /\ datetime_col[guess] = t
        THEN {guess}
        ELSE {i \in 1..n : datetime_col[i] = t}

\* offsets centred on the row itself instead of one base period back
LagLastYear_Centred(lag_base, window) ==
    [k \in 1..(2 * window + 1) |-> (k - 1) - window]

\* week_lag_last_year = list(range(week_lag_base - week_window,
\*                                 week_lag_base + week_window + 1))
LagLastYear(lag_base, window) ==
    [k \in 1..(2 * window + 1) |-> lag_base - window + (k - 1)]

\* the offsets of the last year repeated, without the shift by y base periods
LagAll_SameYear(lag_base, window, n_years) ==
    [k \in 1..(n_years * (2 * window + 1)) |->
        lag_base - window + ((k - 1) % (2 * window + 1))]

\* for y in range(n_years): week_lag_all += [x + y * 52 for x in week_lag_last_year]
\* (x + y * 365 in same_day_hour_lag): the factor is the base of the function
LagAll(lag_base, window, n_years) ==
    LET last_year == LagLastYear(lag_base, window)
        m == Len(last_year)
    IN  [k \in 1..(n_years * m) |->
            last_year[((k - 1) % m) + 1] + ((k - 1) \div m) * lag_base]

\* a mask that also rejects the lag landing exactly on the first timestamp
ValidLag_Strict(lag_datetime, min_time_stamp) == lag_datetime > min_time_stamp

\* valid_lag_mask = lag_datetime >= min_time_stamp
ValidLag(lag_datetime, min_time_stamp) == lag_datetime >= min_time_stamp

\* if (max_time_stamp - timedelta(weeks=w)) >= min_time_stamp: the lag columns kept
LagCols(lag_all, unit, min_time_stamp, max_time_stamp) ==
    SelectSeq(lag_all, LAMBDA w : max_time_stamp - w * unit >= min_time_stamp)

\* df.loc[valid_lag_mask, col_name] = df.loc[lag_datetime[valid_lag_mask], "value"].values
\* at row i, for the lag of w units: NaN where the mask is false, "KeyError"
\* where the label looked up is no timestamp of the frame
LagCell(datetime_col, value_col, min_time_stamp, w, unit, i) ==
    LET lag_datetime == datetime_col[i] - w * unit
        rows == RowsLabelled(datetime_col, lag_datetime)
    IN  IF ~ValidLag(lag_datetime, min_time_stamp) THEN NaN
        ELSE IF rows = {} THEN <<"KeyError", lag_datetime>>
        ELSE Num(value_col[CHOOSE r \in rows : TRUE])

IsKeyError(c) == Len(c) = 2

\* the non-missing cells of row i of df[week_lag_cols]
RECURSIVE LagRowValues(_, _, _, _, _, _)
LagRowValues(datetime_col, value_col, min_time_stamp, lag_cols, unit, i) ==
    IF lag_cols = <<>> THEN <<>>
    ELSE LET c == LagCell(datetime_col, value_col, min_time_stamp, Head(lag_cols), unit, i)
         IN  (IF IsNum(c) THEN <<c[1]>> ELSE <<>>)
             \o LagRowValues(datetime_col, value_col, min_time_stamp, Tail(lag_cols), unit, i)

RaiseLag(exc) == [raised |-> exc, name |-> "", index |-> <<>>, values |-> <<>>]

\* the outcomes of DataFrame.quantile(q, axis=1) on a frame without columns
\* differ between pandas releases: an exception, or a missing value per row
EmptyQuantileBuilds == {"raises", "nan"}

\* The body shared by same_week_day_hour_lag (lag_base 52, unit one week) and
\* same_day_hour_lag (lag_base 365, unit one day); unit is in hours.
\* The frame keeps the rows in the order of datetime_col; the value returned
\* is the one-column frame df[[output_colname]].
LagFeature(datetime_col, value_col, lag_base, unit, n_years, window, agg_func, q, output_colname, build) ==
    LET n == Len(datetime_col)
        min_time_stamp == MinOf(datetime_col, 1, n)
        max_time_stamp == MaxOf(datetime_col, 1, n)
        lag_cols == LagCols(LagAll(lag_base, window, n_years), unit,
                            min_time_stamp, max_time_stamp)
        missing_label ==
            \E k \in 1..Len(lag_cols) : \E i \in 1..n :
                IsKeyError(LagCell(datetime_col, value_col, min_time_stamp,
                                   lag_cols[k], unit, i))
        branch == Pairing(agg_func, q)
    IN  IF missing_label THEN RaiseLag("KeyError")
        ELSE IF branch = "unsupported"
             THEN IF output_colname = "value"
                  THEN [raised |-> "none", name |-> output_colname,
                        index |-> datetime_col,
                        values |-> [i \in 1..n |-> Num(value_col[i])]]
                  ELSE RaiseLag("KeyError")
        ELSE IF branch = "quantile" /\ lag_cols = <<>> /\ build = "raises"
             THEN RaiseLag("ValueError")
        ELSE [raised |-> "none", name |-> output_colname,
              index |-> datetime_col,
              values |-> [i \in 1..n |->
                  Aggregate(branch, q,
                            LagRowValues(datetime_col, value_col, min_time_stamp,
                                         lag_cols, unit, i))]]

same_week_day_hour_lag(datetime_col, value_col, n_years, week_window, agg_func, q, output_colname, build) ==
    LagFeature(datetime_col, value_col, 52, 7 * 24, n_years, week_window,
               agg_func, q, output_colname, build)

same_day_hour_lag(datetime_col, value_col, n_years, day_window, agg_func, q, output_colname, build) ==
    LagFeature(datetime_col, value_col, 365, 24, n_years, day_window,
               agg_func, q, output_colname, build)

----------------------------------------------------------------------------
(* Calls of the lag functions *)

LagFns == {"same_week_day_hour_lag", "same_day_hour_lag"}

\* gap-free series sampled weekly (same_week_day_hour_lag) and daily
\* (same_day_hour_lag), from a single row to more than two base periods
LagSeries(f) ==
    IF f = "same_week_day_hour_lag"
    THEN {[min |-> 168, n |-> k, freq |-> 168, seed |-> 3, order |-> "ascending"] : k \in {1, 52, 54, 107}}
    ELSE {[min |-> 48, n |-> k, freq |-> 24, seed |-> 5, order |-> "ascending"] : k \in {1, 365, 368, 733}}

OutputColnames(f) ==
    {IF f = "same_week_day_hour_lag" THEN "SameWeekHourLag" ELSE "SameDayHourLag", "value"}

LagArgs(f) ==
    {[series |-> s, n_years |-> y, window |-> w, agg_func |-> aq[1], q |-> aq[2],
      output_colname |-> o] :
        s \in LagSeries(f), y \in 0..MaxYears, w \in 0..MaxLagWindow,
        aq \in AggPairs, o \in OutputColnames(f)}

InitLag ==
    /\ fn \in LagFns
    /\ args \in LagArgs(fn)
    /\ pc = "ready"
    /\ result = NotCalled
    /\ Imported

Call_same_week_day_hour_lag ==
    /\ pc = "ready" /\ fn = "same_week_day_hour_lag"
    /\ \E build \in EmptyQuantileBuilds :
          result' = same_week_day_hour_lag(
                        DatetimeCol(args.series), ValueCol(args.series),
                        args.n_years, args.window, args.agg_func, args.q,
                        args.output_colname, build)
    /\ pc' = "done"
    /\ UNCHANGED <<fn, args, scalers, returned>>

Call_same_day_hour_lag ==
    /\ pc = "ready" /\ fn = "same_day_hour_lag"
    /\ \E build \in EmptyQuantileBuilds :
          result' = same_day_hour_lag(
                        DatetimeCol(args.series), ValueCol(args.series),
                        args.n_years, args.window, args.agg_func, args.q,
                        args.output_colname, build)
    /\ pc' = "done"
    /\ UNCHANGED <<fn, args, scalers, returned>>

NextLag ==
    \/ Call_same_week_day_hour_lag
    \/ Call_same_day_hour_lag

SpecLag == InitLag /\ [][NextLag]_vars

----------------------------------------------------------------------------
(* gen_sequence, gen_sequence_array and static_feature_array *)

\* A table is a sequence of rows [grain1, grain2, f1, f2]; df[seq_cols].values
\* turns a row into the tuple of its seq_cols.
RowFeatures(row, seq_cols) == [k \in 1..Len(seq_cols) |-> row[seq_cols[k]]]

\* a slice that takes the row at `stop` as well
Slice_StopInclusive(data_array, start, stop) ==
    LET n == Len(data_array)
        last == IF stop + 1 < n THEN stop + 1 ELSE n
    IN  IF start >= last THEN <<>>
        ELSE [k \in 1..(last - start) |-> data_array[start + k]]

\* data_array[start:stop, :] with 0 <= start: rows start .. min(stop, n) - 1
Slice(data_array, start, stop) ==
    LET n == Len(data_array)
        last == IF stop < n THEN stop ELSE n
    IN  IF start >= last THEN <<>>
        ELSE [k \in 1..(last - start) |-> data_array[start + k]]


\* if end_timestep is None: end_timestep = df.shape[0]
DefaultEnd(df) == Len(df)

\* gen_sequence: the list of the windows the generator yields.  zip() stops
\* with the shorter range; both ranges have end_timestep - seq_len + 2 -
\* start_timestep elements when that is positive.
gen_sequence(df, seq_len, seq_cols, start_timestep, end_timestep) ==
    LET data_array == [k \in 1..Len(df) |-> RowFeatures(df[k], seq_cols)]
        end == IF end_timestep = None THEN DefaultEnd(df) ELSE end_timestep[1]
        count == end - seq_len + 2 - start_timestep
    IN  [k \in 1..(IF count > 0 THEN count ELSE 0) |->
            Slice(data_array, start_timestep + (k - 1), start_timestep + seq_len + (k - 1))]

\* Series.unique(): the distinct values in order of first appearance
RECURSIVE Unique(_, _)
Unique(df, col) ==
    IF df = <<>> THEN <<>>
    ELSE LET before == Unique(SubSeq(df, 1, Len(df) - 1), col)
             v == df[Len(df)][col]
         IN  IF \E k \in 1..Len(before) : before[k] = v THEN before
             ELSE Append(before, v)

\* itertools.product(a, b): the pairs, the second component varying fastest
Product(a, b) ==
    [k \in 1..(Len(a) * Len(b)) |->
        <<a[((k - 1) \div Len(b)) + 1], b[((k - 1) % Len(b)) + 1]>>]

\* df_all[(df_all[grain1_name] == grain1) & (df_all[grain2_name] == grain2)]
RowsOfGrain(df_all, key) ==
    SelectSeq(df_all, LAMBDA row : row.grain1 = key[1] /\ row.grain2 = key[2])

\* the shape numpy gives the list of windows of one grain: () for an empty
\* list (a 1-d array of length 0), <<rows>> when every window has that many
\* rows, Ragged otherwise
Ragged == <<-1>>

WindowsShape(windows) ==
    IF windows = <<>> THEN <<>>
    ELSE IF \A k \in 1..Len(windows) : Len(windows[k]) = Len(windows[1])
         THEN <<Len(windows[1])>>
         ELSE Ragged

RECURSIVE Concat(_)
Concat(lists) == IF lists = <<>> THEN <<>> ELSE Head(lists) \o Concat(Tail(lists))

RaiseSeq(exc, keys) == [raised |-> exc, entities |-> keys, items |-> <<>>]

\* gen_sequence_array: the windows of every (grain1, grain2) of the product
\* of the unique grain values, concatenated by np.concatenate.  The
\* concatenation raises ValueError when there is no array to concatenate, and
\* when the per-grain arrays do not have one common shape (a grain whose
\* windows differ in length does not even make an array of numbers).
gen_sequence_array(df_all, seq_len, seq_cols, start_timestep, end_timestep) ==
    LET keys == Product(Unique(df_all, "grain1"), Unique(df_all, "grain2"))
        seq_gen == [k \in 1..Len(keys) |->
                       gen_sequence(RowsOfGrain(df_all, keys[k]), seq_len, seq_cols,
                                    start_timestep, end_timestep)]
        shapes == {WindowsShape(seq_gen[k]) : k \in 1..Len(keys)}
    IN  IF keys = <<>> \/ Cardinality(shapes) > 1 \/ Ragged \in shapes
        THEN RaiseSeq("ValueError", keys)
        ELSE [raised |-> "none", entities |-> keys, items |-> Concat(seq_gen)]

KeyLess(a, b) == a[1] < b[1] \/ (a[1] = b[1] /\ a[2] < b[2])

\* the keys K in ascending order
RECURSIVE SortedKeys(_)
SortedKeys(K) ==
    IF K = {} THEN <<>>
    ELSE LET least == CHOOSE a \in K : \A b \in K \ {a} : KeyLess(a, b)
         IN  <<least>> \o SortedKeys(K \ {least})

\* static_feature_array: groupby([grain1, grain2]) visits the groups present
\* in df_all in ascending key order; x.iloc[:total_timesteps, :] keeps the
\* first rows of each
static_feature_array(df_all, total_timesteps, seq_cols) ==
    LET keys == SortedKeys({<<df_all[k].grain1, df_all[k].grain2>> : k \in 1..Len(df_all)})
        fea_df == Concat([k \in 1..Len(keys) |->
                     LET x == RowsOfGrain(df_all, keys[k])
                     IN  SubSeq(x, 1, IF total_timesteps < Len(x)
                                      THEN total_timesteps ELSE Len(x))])
    IN  [raised |-> "none", entities |-> keys,
         items |-> [k \in 1..Len(fea_df) |-> RowFeatures(fea_df[k], seq_cols)]]

----------------------------------------------------------------------------
(* Calls of the sequence builders *)

SeqFns == {"gen_sequence_array", "static_feature_array"}

Grains == {1, 2}

\* the orders in which the entities of a table may first appear
EntityOrders ==
    {o \in UNION {[1..k -> Grains \X Grains] : k \in 1..MaxEntities} :
        \A a, b \in DOMAIN o : a # b => o[a] # o[b]}

\* the table of the entities in `order`, n rows each: entity after entity
\* ("blocks") or timestep after timestep ("interleaved")
Table(order, n, layout) ==
    LET e == Len(order)
        Row(key, t) == [grain1 |-> key[1], grain2 |-> key[2],
                        f1 |-> t, f2 |-> 10 * key[1] + key[2]]
    IN  [k \in 1..(e * n) |->
            IF layout = "blocks"
            THEN Row(order[((k - 1) \div n) + 1], (k - 1) % n)
            ELSE Row(order[((k - 1) % e) + 1], (k - 1) \div e)]

RowCounts == (1..MaxRows) \cup {10}

SeqArgs ==
    {[df_all |-> Table(o, n, l), seq_len |-> L, seq_cols |-> c,
      start_timestep |-> st, end_timestep |-> en, total_timesteps |-> tt] :
        o \in EntityOrders, n \in RowCounts, l \in {"blocks", "interleaved"},
        L \in 1..MaxSeqLen, c \in {<<"f1">>, <<"f1", "f2">>},
        st \in {0, 1}, en \in {None} \cup {<<e>> : e \in 0..MaxRows},
        tt \in {1, MaxRows}}

InitSeq ==
    /\ fn \in SeqFns
    /\ args \in SeqArgs
    /\ fn = "static_feature_array" =>
          args.seq_len = 1 /\ args.start_timestep = 0 /\ args.end_timestep = None
    /\ fn = "gen_sequence_array" => args.total_timesteps = 1
    /\ pc = "ready"
    /\ result = NotCalled
    /\ Imported

Call_gen_sequence_array ==
    /\ pc = "ready" /\ fn = "gen_sequence_array"
    /\ result' = gen_sequence_array(args.df_all, args.seq_len, args.seq_cols,
                                     args.start_timestep, args.end_timestep)
    /\ pc' = "done"
    /\ UNCHANGED <<fn, args, scalers, returned>>

Call_static_feature_array ==
    /\ pc = "ready" /\ fn = "static_feature_array"
    /\ result' = static_feature_array(args.df_all, args.total_timesteps, args.seq_cols)
    /\ pc' = "done"
    /\ UNCHANGED <<fn, args, scalers, returned>>

NextSeq ==
    \/ Call_gen_sequence_array
    \/ Call_static_feature_array

SpecSeq == InitSeq /\ [][NextSeq]_vars

Call_gen_sequence ==
    /\ pc = "ready" /\ fn = "gen_sequence"
    /\ result' = [raised |-> "none", entities |-> <<>>,
                  items |-> gen_sequence(args.df_all, args.seq_len, args.seq_cols,
                                         args.start_timestep, args.end_timestep)]
    /\ pc' = "done"
    /\ UNCHANGED <<fn, args, scalers, returned>>

\* gen_sequence on the table of one entity: every start_timestep and
\* end_timestep up to one past the row count, and the default end
GenArgs ==
    {[df_all |-> Table(<<<<1, 1>>>>, n, "blocks"), seq_len |-> L, seq_cols |-> c,
      start_timestep |-> st, end_timestep |-> en, total_timesteps |-> 1] :
        n \in 1..MaxGenRows, L \in 1..MaxSeqLen, c \in {<<"f1">>, <<"f1", "f2">>},
        st \in 0..2, en \in {None} \cup {<<e>> : e \in 0..(MaxGenRows + 1)}}

InitGen ==
    /\ fn = "gen_sequence"
    /\ args \in GenArgs
    /\ pc = "ready"
    /\ result = NotCalled
    /\ Imported

NextGen == Call_gen_sequence

SpecGen == InitGen /\ [][NextGen]_vars

----------------------------------------------------------------------------
(* normalized_current_year, normalized_current_date, normalized_current_datehour *)

\* A datetime is [year, doy, hour]: doy is the day of the year from 1.
\* A float is <<num, den>> with den >= 0: den = 0 stands for the IEEE results
\* of a division by zero, inf (<<1, 0>>), -inf (<<-1, 0>>) and nan (<<0, 0>>).

\* datetime.date ordinals: the days before January 1 of year y
DaysBeforeYear(y) == (y - 1) * 365 + (y - 1) \div 4 - (y - 1) \div 100 + (y - 1) \div 400

\* (date - min_date).days for the dates of two datetimes
DaysBetween(d, min_date) ==
    (DaysBeforeYear(d.year) + d.doy) - (DaysBeforeYear(min_date.year) + min_date.doy)

\* x.days * 24 + x.seconds / 3600 of the timedelta x = d - min_datehour
HoursBetween(d, min_datehour) == DaysBetween(d, min_datehour) * 24 + d.hour - min_datehour.hour

Sign(a) == IF a > 0 THEN 1 ELSE IF a < 0 THEN -1 ELSE 0

\* Series / number in floating point: no exception on a zero divisor
FloatDiv(a, b) ==
    IF b = 0 THEN <<Sign(a), 0>>
    ELSE IF b > 0 THEN <<a, b>> ELSE <<-a, -b>>

\* a position counted back from the upper end of the range
Position_FromMax(v, lo, hi) == FloatDiv(hi - v, hi - lo)

\* (year - min_year) / (max_year - min_year), and the like for dates and hours
Position(v, lo, hi) == FloatDiv(v - lo, hi - lo)

ReturnSeries(values) == [raised |-> "none", kind |-> "series", value |-> values]

\* current_year = 0: the function returns the integer 0, not a Series
ReturnZero == [raised |-> "none", kind |-> "scalar", value |-> <<0, 1>>]

normalized_current_year(datetime_col, min_year, max_year) ==
    LET year == [i \in 1..Len(datetime_col) |-> datetime_col[i].year]
    IN  IF max_year # min_year
        THEN ReturnSeries([i \in 1..Len(year) |-> Position(year[i], min_year, max_year)])
        ELSE ReturnZero

normalized_current_date(datetime_col, min_date, max_date) ==
    LET current_date == [i \in 1..Len(datetime_col) |-> DaysBetween(datetime_col[i], min_date)]
    IN  IF DaysBetween(max_date, min_date) # 0
        THEN ReturnSeries([i \in 1..Len(current_date) |->
                              Position(current_date[i], 0, DaysBetween(max_date, min_date))])
        ELSE ReturnZero

\* Python values that carry their type
Timedelta(hours) == [type |-> "Timedelta", v |-> hours]
PyInt(k) == [type |-> "int", v |-> k]

\* a != b: a Timedelta and an int are of different types and never equal
PyNe(a, b) == a.type # b.type \/ a.v # b.v

normalized_current_datehour(datetime_col, min_datehour, max_datehour) ==
    LET current_datehour ==
            [i \in 1..Len(datetime_col) |-> HoursBetween(datetime_col[i], min_datehour)]
        max_min_diff == HoursBetween(max_datehour, min_datehour)
    IN  IF PyNe(Timedelta(max_min_diff), PyInt(0))
        THEN ReturnSeries([i \in 1..Len(current_datehour) |->
                              Position(current_datehour[i], 0, max_min_diff)])
        ELSE ReturnZero

----------------------------------------------------------------------------
(* Calls of the normalized_current_* functions *)

NormFns == {"normalized_current_year", "normalized_current_date",
            "normalized_current_datehour"}

Years == 2015..2017

Datetimes == {[year |-> y, doy |-> d, hour |-> h] : y \in Years, d \in {1, 365}, h \in {0, 12}}

Midnights == {d \in Datetimes : d.hour = 0}

DatetimeCols == UNION {[1..k -> Datetimes] : k \in 1..MaxNormRows}

\* the bounds of the range: years, dates (datetimes at midnight) or datetimes
RangeEnds(f) ==
    IF f = "normalized_current_year"
    THEN {[year |-> y, doy |-> 1, hour |-> 0] : y \in Years}
    ELSE IF f = "normalized_current_date" THEN Midnights
    ELSE Datetimes

InitNorm ==
    /\ fn \in NormFns
    /\ args \in {[datetime_col |-> c, min |-> lo, max |-> hi] :
                    c \in DatetimeCols, lo \in RangeEnds(fn), hi \in RangeEnds(fn)}
    /\ pc = "ready"
    /\ result = NotCalled
    /\ Imported

Call_normalized_current_year ==
    /\ pc = "ready" /\ fn = "normalized_current_year"
    /\ result' = normalized_current_year(args.datetime_col, args.min.year, args.max.year)
    /\ pc' = "done"
    /\ UNCHANGED <<fn, args, scalers, returned>>

Call_normalized_current_date ==
    /\ pc = "ready" /\ fn = "normalized_current_date"
    /\ result' = normalized_current_date(args.datetime_col, args.min, args.max)
    /\ pc' = "done"
    /\ UNCHANGED <<fn, args, scalers, returned>>

Call_normalized_current_datehour ==
    /\ pc = "ready" /\ fn = "normalized_current_datehour"
    /\ result' = normalized_current_datehour(args.datetime_col, args.min, args.max)
    /\ pc' = "done"
    /\ UNCHANGED <<fn, args, scalers, returned>>

NextNorm ==
    \/ Call_normalized_current_year
    \/ Call_normalized_current_date
    \/ Call_normalized_current_datehour

SpecNorm == InitNorm /\ [][NextNorm]_vars

----------------------------------------------------------------------------
(* normalize_columns and its scaler *)

\* A frame is a record of columns a and b, each a sequence of numbers.
\* MinMaxScaler.fit: the minimum and the maximum of every column of X
Fit(X) == [k \in 1..Len(X) |-> <<MinOf(X[k], 1, Len(X[k])), MaxOf(X[k], 1, Len(X[k]))>>]

\* MinMaxScaler.transform with the default feature_range (0, 1): a column
\* without spread is scaled by 1
Transform(fitted, X) ==
    [k \in 1..Len(X) |->
        [i \in 1..Len(X[k]) |->
            IF fitted[k][2] = fitted[k][1] THEN <<X[k][i] - fitted[k][1], 1>>
            ELSE <<X[k][i] - fitted[k][1], fitted[k][2] - fitted[k][1]>>]]

\* normalize_columns(df, seq_cols, scaler): `scaler` is the position in
\* `scalers` of the object passed (1 when the caller leaves the default).
\* Gives the heap after scaler.fit_transform and the pair returned.
normalize_columns(heap, df, seq_cols, scaler) ==
    LET X == [k \in 1..Len(seq_cols) |-> df[seq_cols[k]]]
        fitted == Fit(X)
        cols_fixed == SelectSeq(<<"a", "b">>,
                                LAMBDA c : \A k \in 1..Len(seq_cols) : seq_cols[k] # c)
        df_scaled == [columns |-> cols_fixed \o seq_cols,
                      data |-> [k \in 1..Len(cols_fixed) |->
                                   [i \in 1..Len(df[cols_fixed[k]]) |-> <<df[cols_fixed[k]][i], 1>>]]
                               \o Transform(fitted, X)]
    IN  [heap |-> [heap EXCEPT ![scaler] = fitted],
         value |-> [df_scaled |-> df_scaled, scaler |-> scaler]]

Frames == {[a |-> c, b |-> <<5, 7>>] : c \in {<<1, 2>>, <<0, 4>>, <<3, 3>>}}

\* One call of normalize_columns, with the default scaler or with a scaler
\* the caller has just made.  `returned` keeps, with each pair returned, the
\* state the returned scaler was in at that time.
Call_normalize_columns ==
    /\ fn = "normalize_columns"
    /\ Len(returned) < MaxCalls
    /\ \E df \in Frames, seq_cols \in {<<"a">>, <<"a", "b">>}, default \in BOOLEAN :
          LET heap == IF default THEN scalers ELSE Append(scalers, Unfitted)
              scaler == IF default THEN 1 ELSE Len(heap)
              out == normalize_columns(heap, df, seq_cols, scaler)
          IN  /\ args' = [df |-> df, seq_cols |-> seq_cols, default |-> default]
              /\ scalers' = out.heap
              /\ result' = [raised |-> "none", value |-> out.value]
              /\ returned' = Append(returned,
                                    [value |-> out.value, seen |-> out.heap[scaler]])
    /\ pc' = "done"
    /\ UNCHANGED fn

InitScaler ==
    /\ fn = "normalize_columns"
    /\ args = [df |-> <<>>, seq_cols |-> <<>>, default |-> TRUE]
    /\ pc = "ready"
    /\ result = NotCalled
    /\ Imported

NextScaler == Call_normalize_columns

SpecScaler == InitScaler /\ [][NextScaler]_vars

----------------------------------------------------------------------------
(* day_type *)

\* A timestamp of the calendar functions is [day, hour]: day counts the days
\* since Monday 2018-01-01, so that dt.dayofweek (Monday = 0) is day % 7.
\* Dates and the semi-holiday offset are counted in half days, a date being
\* the midnight that starts it.

\* a map that folds Thursday only
WEEK_DAY_TYPE_MAP_ThursdayOnly == (3 :> 2)

\* WEEK_DAY_TYPE_MAP = {1: 2, 3: 2}
WEEK_DAY_TYPE_MAP == (1 :> 2) @@ (3 :> 2)

HOLIDAY_CODE == 7

SEMI_HOLIDAY_CODE == 8

dayofweek(ts) == ts.day % 7

\* datetype.replace({"DayType": WEEK_DAY_TYPE_MAP})
Replace(map, v) == IF v \in DOMAIN map THEN map[v] ELSE v

\* pd.to_datetime(datetime_col.dt.date): midnight of the row's day, in half days
Date2(ts) == 2 * ts.day

\* holiday_mask = holiday_col > 0
HolidayMask(holiday_col) == [i \in 1..Len(holiday_col) |-> holiday_col[i] > 0]

\* set(datetype.loc[holiday_mask, "Date"])
HolidayDates(datetime_col, holiday_mask) ==
    {Date2(datetime_col[i]) : i \in {k \in 1..Len(datetime_col) : holiday_mask[k]}}

\* pd.date_range(start, end, freq="D"): start, start + 1 day, ... up to end
DateRange2(start, end) ==
    IF end < start THEN {}
    ELSE {start + 2 * k : k \in 0..((end - start) \div 2)}

\* the dates around the holidays, the holidays themselves left in
SemiHolidayDates_KeepHolidays(holiday_dates, offset2) ==
    UNION {DateRange2(d - offset2, d + offset2) : d \in holiday_dates}

\* the flattened date ranges around each holiday, less the holiday dates
SemiHolidayDates(holiday_dates, offset2) ==
    (UNION {DateRange2(d - offset2, d + offset2) : d \in holiday_dates}) \ holiday_dates

ReturnArray(values) == [raised |-> "none", kind |-> "array", value |-> values]

day_type(datetime_col, holiday_col, semi_holiday_offset2) ==
    LET n == Len(datetime_col)
        datetype == [i \in 1..n |-> Replace(WEEK_DAY_TYPE_MAP, dayofweek(datetime_col[i]))]
    IN  IF holiday_col # None
        THEN LET holiday_mask == HolidayMask(holiday_col[1])
                 flagged == [i \in 1..n |-> IF holiday_mask[i] THEN HOLIDAY_CODE ELSE datetype[i]]
                 holiday_dates == HolidayDates(datetime_col, holiday_mask)
                 semi_holiday_dates == SemiHolidayDates(holiday_dates, semi_holiday_offset2)
             IN  ReturnArray([i \in 1..n |->
                     IF Date2(datetime_col[i]) \in semi_holiday_dates
                     THEN SEMI_HOLIDAY_CODE ELSE flagged[i]])
        ELSE ReturnArray(datetype)

(* Calls of day_type *)

\* rows_per_day rows a day (at 00:00, 12:00) over n_days days from first_day
CalendarRows(first_day, n_days, rows_per_day) ==
    [k \in 1..(n_days * rows_per_day) |->
        [day |-> first_day + (k - 1) \div rows_per_day,
         hour |-> 12 * ((k - 1) % rows_per_day)]]

RowsPerDay == {1, 2}

FirstDays == 0..6

\* the holiday indicator of a day: no row flagged, every row flagged, or
\* the first row only
DayFlags == {"none", "all", "first"}

HolidayCol(flags, rows_per_day) ==
    [k \in 1..(Len(flags) * rows_per_day) |->
        LET f == flags[((k - 1) \div rows_per_day) + 1]
        IN  IF f = "all" \/ (f = "first" /\ (k - 1) % rows_per_day = 0) THEN 1 ELSE 0]

\* calls without a holiday indicator, and calls with every indicator over
\* MaxHolidayDays days and every offset up to MaxOffset2 half days
InitDayType ==
    /\ fn = "day_type"
    /\ \E d \in FirstDays, r \in RowsPerDay :
          \/ \E n \in 1..MaxPlainDays :
                args = [datetime_col |-> CalendarRows(d, n, r), holiday_col |-> None,
                        semi_holiday_offset2 |-> 2]
          \/ \E flags \in [1..MaxHolidayDays -> DayFlags], o \in 0..MaxOffset2 :
                args = [datetime_col |-> CalendarRows(d, MaxHolidayDays, r),
                        holiday_col |-> <<HolidayCol(flags, r)>>,
                        semi_holiday_offset2 |-> o]
    /\ pc = "ready"
    /\ result = NotCalled
    /\ Imported

Call_day_type ==
    /\ pc = "ready" /\ fn = "day_type"
    /\ result' = day_type(args.datetime_col, args.holiday_col, args.semi_holiday_offset2)
    /\ pc' = "done"
    /\ UNCHANGED <<fn, args, scalers, returned>>

NextDayType == Call_day_type

SpecDayType == InitDayType /\ [][NextDayType]_vars

----------------------------------------------------------------------------
(* time_of_year *)

\* calendar.isleap(y)
isleap(y) == y % 4 = 0 /\ (y % 100 # 0 \/ y % 400 = 0)

\* a year length that knows no leap years
YearLength_NoLeap(y) == 365

\* lambda y: 366 if calendar.isleap(y) else 365
YearLength(y) == IF isleap(y) THEN 366 ELSE 365

\* (DayOfYear - 1) * 24 + HourOfDay, divided by YearLength * 24 - 1
time_of_year(datetime_col) ==
    ReturnArray([i \in 1..Len(datetime_col) |->
        LET d == datetime_col[i]
        IN  FloatDiv((d.doy - 1) * 24 + d.hour, YearLength(d.year) * 24 - 1)])

(* Calls of time_of_year *)

\* the hour after a datetime
NextHour(d) ==
    IF d.hour < 23 THEN [d EXCEPT !.hour = d.hour + 1]
    ELSE IF d.doy < YearLength(d.year) THEN [d EXCEPT !.doy = d.doy + 1, !.hour = 0]
    ELSE [year |-> d.year + 1, doy |-> 1, hour |-> 0]

RECURSIVE HourlyRun(_, _)
HourlyRun(first, n) == IF n = 0 THEN <<>> ELSE <<first>> \o HourlyRun(NextHour(first), n - 1)

\* ordinary, leap, and century years
TimeOfYearYears == {1900, 2000, 2015, 2016}

\* the first hours of the columns: around the turn of the year and the leap day
TimeOfYearStarts ==
    {d \in {[year |-> y, doy |-> n, hour |-> h] :
                y \in TimeOfYearYears, n \in {1, 59, 60, 365, 366}, h \in 0..23} :
        d.doy <= YearLength(d.year)}

InitTimeOfYear ==
    /\ fn = "time_of_year"
    /\ args \in {[datetime_col |-> HourlyRun(d, n)] : d \in TimeOfYearStarts, n \in 1..MaxHours}
    /\ pc = "ready"
    /\ result = NotCalled
    /\ Imported

Call_time_of_year ==
    /\ pc = "ready" /\ fn = "time_of_year"
    /\ result' = time_of_year(args.datetime_col)
    /\ pc' = "done"
    /\ UNCHANGED <<fn, args, scalers, returned>>

NextTimeOfYear == Call_time_of_year

SpecTimeOfYear == InitTimeOfYear /\ [][NextTimeOfYear]_vars

----------------------------------------------------------------------------
(* normalized_columns *)

\* The frame is the sequence of its rows [t, value], t the Datetime index in
\* hours.  datetime_col holds datetimes already, so that the conversion of
\* lines 297-298 does not apply.  np.log of a quotient is kept as the
\* quotient with the tag "log".

\* df.index.is_monotonic: the index never decreases
IsMonotonic(df) == \A i \in 1..(Len(df) - 1) : df[i].t <= df[i + 1].t

RECURSIVE InsertByIndex(_, _)
InsertByIndex(row, df) ==
    IF df = <<>> THEN <<row>>
    ELSE IF row.t < Head(df).t THEN <<row>> \o df
    ELSE <<Head(df)>> \o InsertByIndex(row, Tail(df))

\* df.sort_index()
RECURSIVE SortIndex(_)
SortIndex(df) ==
    IF df = <<>> THEN <<>>
    ELSE InsertByIndex(df[Len(df)], SortIndex(SubSeq(df, 1, Len(df) - 1)))

\* if not df.index.is_monotonic: df.sort_index(inplace=True)
SortIfNotMonotonic(df) == IF ~IsMonotonic(df) THEN SortIndex(df) ELSE df

Plain(x) == [fn |-> "id", num |-> x[1], den |-> x[2]]

\* np.log(x)
Log(x) == [fn |-> "log", num |-> x[1], den |-> x[2]]

\* min(df["value"]) and max(df["value"]): the builtins, left to right
RECURSIVE BuiltinMin(_, _)
BuiltinMin(df, i) ==
    IF i = 1 THEN df[1].value
    ELSE LET m == BuiltinMin(df, i - 1) IN IF df[i].value < m THEN df[i].value ELSE m

RECURSIVE BuiltinMax(_, _)
BuiltinMax(df, i) ==
    IF i = 1 THEN df[1].value
    ELSE LET m == BuiltinMax(df, i - 1) IN IF df[i].value > m THEN df[i].value ELSE m

RaiseColumns(exc) == [raised |-> exc, rows |-> <<>>]

\* return df[[output_colname]]
ReturnColumn(df, column) ==
    [raised |-> "none", rows |-> [i \in 1..Len(df) |-> [t |-> df[i].t, value |-> column[i]]]]

\* a dispatch that takes every mode but "log" for "minmax"
ModeBranch_NoElse(mode) == IF mode = "log" THEN "log" ELSE "minmax"

\* if mode == "log": ... elif mode == "minmax": ... else: raise ValueError
ModeBranch(mode) ==
    IF mode = "log" THEN "log" ELSE IF mode = "minmax" THEN "minmax" ELSE "else"

normalized_columns(datetime_col, value_col, mode) ==
    LET n == Len(datetime_col)
        df == SortIfNotMonotonic([i \in 1..n |-> [t |-> datetime_col[i], value |-> value_col[i]]])
        total == SumSeq([i \in 1..n |-> df[i].value])
    IN  CASE ModeBranch(mode) = "log" ->
               \* mean of no rows is nan, and nan != 0
               IF n = 0 \/ total # 0
               THEN ReturnColumn(df, [i \in 1..n |-> Log(FloatDiv(df[i].value * n, total))])
               ELSE ReturnColumn(df, [i \in 1..n |-> Plain(<<0, 1>>)])
          [] ModeBranch(mode) = "minmax" ->
               IF n = 0 THEN RaiseColumns("ValueError: min() arg is an empty sequence")
               ELSE LET min_value == BuiltinMin(df, n)
                        max_value == BuiltinMax(df, n)
                    IN  IF min_value # max_value
                        THEN ReturnColumn(df, [i \in 1..n |->
                                 Plain(FloatDiv(df[i].value - min_value, max_value - min_value))])
                        ELSE ReturnColumn(df, [i \in 1..n |-> Plain(<<0, 1>>)])
          [] OTHER -> RaiseColumns("ValueError: Valid values for mode are 'log' and 'minmax'")

(* Calls of normalized_columns *)

Modes == {"log", "minmax", "LOG", "zscore", ""}

Perms(n) == {p \in [1..n -> 1..n] : \A i, j \in 1..n : p[i] = p[j] => i = j}

ColumnValues == {-1, 0, 1}

\* the rows of a gap-free hourly series from hour 5 on, in every order
ColumnsArgs ==
    UNION {{[datetime_col |-> [i \in 1..n |-> 4 + p[i]], value_col |-> v, mode |-> m] :
               p \in Perms(n), v \in [1..n -> ColumnValues], m \in Modes} :
           n \in 0..MaxColumnRows}

InitColumns ==
    /\ fn = "normalized_columns"
    /\ args \in ColumnsArgs
    /\ pc = "ready"
    /\ result = NotCalled
    /\ Imported

Call_normalized_columns ==
    /\ pc = "ready" /\ fn = "normalized_columns"
    /\ result' = normalized_columns(args.datetime_col, args.value_col, args.mode)
    /\ pc' = "done"
    /\ UNCHANGED <<fn, args, scalers, returned>>

NextColumns == Call_normalized_columns

SpecColumns == InitColumns /\ [][NextColumns]_vars

----------------------------------------------------------------------------
(* The library as a whole *)

Init ==
    \/ InitMoving \/ InitLag \/ InitSeq \/ InitGen \/ InitNorm \/ InitScaler
    \/ InitDayType \/ InitTimeOfYear \/ InitColumns

Next ==
    \/ NextMoving \/ NextLag \/ NextSeq \/ NextGen \/ NextNorm \/ NextScaler
    \/ NextDayType \/ NextTimeOfYear \/ NextColumns

Spec == Init /\ [][Next]_vars

----------------------------------------------------------------------------
(* Claims about the moving-aggregate functions *)

MovingDone == pc = "done" /\ fn \in MovingFns

\* the lag, in hours, of week w of feature i of the call in args
LagHours(i, w) == (args.start_week + i + w) * 24 * 7

\* week w of feature i clears the cutoff: for the latest row, the shifted
\* timestamp lies strictly before forecast_creation_time
LagClears(i, w) == 2 * (LastHour(args.series) - LagHours(i, w)) < args.fct2

SomeLagClears(i) == \E w \in 0..(args.window_size - 1) : LagClears(i, w)

InSeries(t) == t >= args.series.min /\ t <= LastHour(args.series)

\* C1: leakage guard.  Whenever one of the four same_day_hour_moving_*
\* functions returns, every observation that contributes to an output value
\* (the series value at the shifted timestamp of an aggregated lag column, at
\* any row) has a timestamp strictly before forecast_creation_time.
C1_LeakageGuard ==
    (MovingDone /\ Returned(result)) =>
        \A j \in 1..Len(result.columns) :
            \A k \in 1..Len(result.columns[j].lags) :
                \A p \in 0..(result.n - 1) :
                    LET src == result.lo + p - result.columns[j].lags[k]
                    IN  InSeries(src) => 2 * src < args.fct2

\* C1 witness: a call has returned a column in which a lag contributes an
\* observation, while the lag of the same feature that lands exactly on the
\* cutoff for the latest row was left out.
C1_Witness ==
    /\ MovingDone /\ Returned(result)
    /\ \E j \in 1..Len(result.columns) :
          LET col == result.columns[j]
              i == col.name.week - args.start_week
          IN  /\ \E k \in 1..Len(col.lags) : InSeries(LastHour(args.series) - col.lags[k])
              /\ \E w \in 0..(args.window_size - 1) :
                    /\ 2 * (LastHour(args.series) - LagHours(i, w)) = args.fct2
                    /\ \A k \in 1..Len(col.lags) : col.lags[k] # LagHours(i, w)

\* C2: in same_day_hour_moving_quantile and same_day_hour_moving_agg, when no
\* week lag of a requested feature clears the cutoff, the call returns without
\* raising and that feature's column is omitted or all-missing.
C2_NoLagFeatureOmitted ==
    (/\ MovingDone
     /\ fn \in {"same_day_hour_moving_quantile", "same_day_hour_moving_agg"}
     /\ args.window_size >= 1) =>
        \A i \in 0..(args.count - 1) :
            ~SomeLagClears(i) =>
                /\ Returned(result)
                /\ \A j \in 1..Len(result.columns) :
                      result.columns[j].name.week = args.start_week + i =>
                          \A p \in 0..(result.n - 1) : result.columns[j].values[p] = NaN

\* the weeks w of feature i that clear the cutoff and whose observation for
\* the row at timestamp t exists, as <<sum of the observations, their number>>
RECURSIVE ClearedSum(_, _, _)
ClearedSum(i, t, w) ==
    IF w = args.window_size THEN <<0, 0>>
    ELSE LET rest == ClearedSum(i, t, w + 1)
             src == t - LagHours(i, w)
         IN  IF LagClears(i, w) /\ InSeries(src)
             THEN <<rest[1] + Val(args.series.seed, src), rest[2] + 1>>
             ELSE rest

Abs(x) == IF x < 0 THEN -x ELSE x

\* cell c is the mean sm[1] / sm[2] rounded to a nearest integer, missing
\* when there is nothing to average
IsRoundedMean(c, sm) ==
    IF sm[2] = 0 THEN c = NaN
    ELSE IsNum(c) /\ 2 * Abs(c[1] * sm[2] - sm[1]) <= sm[2]

\* the features of the call that have a week lag clearing the cutoff, in order
ClearingFeatures == SelectSeq([k \in 1..args.count |-> k - 1], SomeLagClears)

\* C3: same_day_hour_moving_average returns exactly one column per feature i
\* that has a week lag clearing the cutoff, named prefix + str(start_week + i),
\* whose value at the row of timestamp t is the rounded mean of the series
\* values at (start_week + i + w) weeks before t over the clearing w.
C3_MovingAverageColumns ==
    (pc = "done" /\ fn = "same_day_hour_moving_average") =>
        /\ Returned(result)
        /\ Len(result.columns) = Len(ClearingFeatures)
        /\ \A j \in 1..Len(result.columns) :
              LET i == ClearingFeatures[j]
                  col == result.columns[j]
              IN  /\ col.name = [prefix |-> args.output_col_prefix, week |-> args.start_week + i]
                  /\ \A p \in 0..(result.n - 1) :
                        IsRoundedMean(col.values[p], ClearedSum(i, result.lo + p, 0))

\* C3 witness: a moving average has returned fewer columns than features
\* asked for, and a returned column that lost a week to the cutoff holds a
\* value at some row.
C3_Witness ==
    /\ pc = "done" /\ fn = "same_day_hour_moving_average" /\ Returned(result)
    /\ Len(result.columns) >= 1
    /\ Len(result.columns) < args.count
    /\ \E j \in 1..Len(result.columns) : \E p \in 0..(result.n - 1) :
          /\ Len(result.columns[j].lags) < args.window_size
          /\ result.columns[j].values[p] # NaN

----------------------------------------------------------------------------
(* Claims about the lag functions *)

\* the sum and the number of the observations of the series at the
\* timestamps T
RECURSIVE ObservedSum(_, _)
ObservedSum(seed, T) ==
    IF T = {} THEN <<0, 0>>
    ELSE LET t == CHOOSE x \in T : TRUE
             rest == ObservedSum(seed, T \ {t})
         IN  <<rest[1] + Val(seed, t), rest[2] + 1>>

\* the day offsets same_day_hour_lag looks back by: around the same day of
\* each of the n_years previous years
DayOffsets == {365 * y + k : y \in 1..args.n_years, k \in (-args.window)..args.window}

\* the timestamps of the valid historical offsets of the row at timestamp t
DaySources(t) == {t - 24 * d : d \in DayOffsets} \cap {u \in Int : InSeries(u)}

\* C4: same_day_hour_lag with agg_func = "mean" and q = None returns, at every
\* row with a valid historical offset, the mean of that row's available
\* offset values rounded to the nearest integer, and a missing value (not
\* zero) at every row without one.
C4_SameDayMean ==
    (/\ pc = "done" /\ fn = "same_day_hour_lag"
     /\ args.agg_func = "mean" /\ args.q = None) =>
        /\ Returned(result)
        /\ Len(result.values) = args.series.n
        /\ \A i \in 1..Len(result.values) :
              IsRoundedMean(result.values[i],
                            ObservedSum(args.series.seed, DaySources(result.index[i])))

\* C4 witness: a same_day_hour_lag mean has returned with a row that has no
\* valid offset, a row that averages one and a row that averages several.
C4_Witness ==
    /\ pc = "done" /\ fn = "same_day_hour_lag" /\ Returned(result)
    /\ args.agg_func = "mean" /\ args.q = None
    /\ \E i \in 1..Len(result.values) :
          DaySources(result.index[i]) = {} /\ result.values[i] = NaN
    /\ \E i \in 1..Len(result.values) :
          Cardinality(DaySources(result.index[i])) = 1 /\ result.values[i] # NaN
    /\ \E i \in 1..Len(result.values) :
          Cardinality(DaySources(result.index[i])) >= 3 /\ result.values[i] # NaN

----------------------------------------------------------------------------
(* Claims about unsupported (agg_func, q) pairings *)

AggFns == LagFns \cup {"same_day_hour_moving_agg"}

InitAgg ==
    \/ InitLag
    \/ InitMoving /\ fn = "same_day_hour_moving_agg"

NextAgg ==
    \/ Call_same_week_day_hour_lag
    \/ Call_same_day_hour_lag
    \/ Call_same_day_hour_moving_agg

SpecAgg == InitAgg /\ [][NextAgg]_vars

UnsupportedCall ==
    /\ fn \in AggFns
    /\ ~ \/ args.agg_func = "mean" /\ args.q = None
         \/ args.agg_func = "quantile" /\ args.q # None
         \/ args.agg_func = "std" /\ args.q = None

\* C7 as stated: with an unsupported (agg_func, q) pairing each of the three
\* functions returns normally, the requested output column absent (stated
\* here for calls that leave output_colname at its default).
C7_UnsupportedReturns ==
    (pc = "done" /\ UnsupportedCall /\ (fn \in LagFns => args.output_colname # "value")) =>
        /\ Returned(result)
        /\ fn = "same_day_hour_moving_agg" => result.columns = <<>>
        /\ fn \in LagFns => result.name # args.output_colname

\* C7 amended: with an unsupported pairing same_day_hour_moving_agg returns a
\* frame without any output column, and the two lag functions raise KeyError
\* when output_colname names no column the frame already has.
C7_UnsupportedOutcome ==
    (pc = "done" /\ UnsupportedCall) =>
        /\ fn = "same_day_hour_moving_agg" =>
              Returned(result) /\ result.columns = <<>>
        /\ (fn \in LagFns /\ args.output_colname # "value") =>
              result.raised = "KeyError"

\* C7 witness: a lag function called with agg_func = "quantile" and no q, on
\* a series long enough to have lag columns, has raised KeyError.
C7_Witness ==
    /\ pc = "done" /\ UnsupportedCall
    /\ fn = "same_week_day_hour_lag"
    /\ args.agg_func = "quantile" /\ args.n_years >= 1 /\ args.series.n > 53
    /\ result.raised = "KeyError"

----------------------------------------------------------------------------
(* Claims about the sequence builders *)

\* the entities of the table in args and the number of rows of each
TableKeys == {<<args.df_all[k].grain1, args.df_all[k].grain2>> : k \in 1..Len(args.df_all)}

RowsOfKey(key) ==
    Cardinality({k \in 1..Len(args.df_all) :
                    <<args.df_all[k].grain1, args.df_all[k].grain2>> = key})

\* every combination of a grain1 value and a grain2 value of the table is an
\* entity of the table
FullGrid ==
    \A a \in TableKeys, b \in TableKeys : <<a[1], b[2]>> \in TableKeys

\* C5: gen_sequence_array with the default start_timestep and end_timestep, on
\* E entities of n rows each and seq_len L <= n, returns E * (n - L + 1)
\* sequences, each of L rows and num_features columns.
C5_DefaultSequenceCount ==
    (/\ pc = "done" /\ fn = "gen_sequence_array"
     /\ args.start_timestep = 0 /\ args.end_timestep = None
     /\ FullGrid
     /\ \A key \in TableKeys : RowsOfKey(key) = RowsOfKey(<<args.df_all[1].grain1, args.df_all[1].grain2>>)
     /\ args.seq_len <= RowsOfKey(<<args.df_all[1].grain1, args.df_all[1].grain2>>)) =>
        /\ Returned(result)
        /\ Len(result.items) =
               Cardinality(TableKeys)
               * (RowsOfKey(<<args.df_all[1].grain1, args.df_all[1].grain2>>) - args.seq_len + 1)
        /\ \A k \in 1..Len(result.items) :
              /\ Len(result.items[k]) = args.seq_len
              /\ \A r \in 1..Len(result.items[k]) :
                    Len(result.items[k][r]) = Len(args.seq_cols)

\* C6: on every table, whatever the order of its rows, gen_sequence_array and
\* static_feature_array go through the entities in the same order, the
\* Cartesian product of the sorted unique grain1 and grain2 values (stated
\* for the tables in which every combination of grain values is an entity).
C6_EntityOrder ==
    (pc = "done" /\ fn \in SeqFns /\ Returned(result) /\ FullGrid) =>
        result.entities = SortedKeys(TableKeys)

----------------------------------------------------------------------------
(* Claims about the normalisation functions *)

\* C8: no shared mutable state across calls.  Every scaler a call of
\* normalize_columns has returned is still in the state it was returned in,
\* whatever calls came after.
C8_NoSharedState ==
    \A k \in 1..Len(returned) : scalers[returned[k].value.scaler] = returned[k].seen

\* the value the result holds for row i: a scalar result stands for every row
RowValue(i) == IF result.kind = "scalar" THEN result.value ELSE result.value[i]

IsZero(x) == x[1] = 0 /\ x[2] # 0

\* C9: normalized_current_datehour with min_datehour = max_datehour returns
\* exactly 0 for every row, without dividing by zero.
C9_DegenerateDatehour ==
    (pc = "done" /\ fn = "normalized_current_datehour" /\ args.min = args.max) =>
        /\ Returned(result)
        /\ \A i \in 1..Len(args.datetime_col) : IsZero(RowValue(i))

\* what normalized_current_year and normalized_current_date measure: the year
\* of a datetime, or the day number of its date
Measure(d) == IF fn = "normalized_current_year" THEN d.year
              ELSE DaysBeforeYear(d.year) + d.doy

Between(v, a, b) == (a <= v /\ v <= b) \/ (b <= v /\ v <= a)

\* the result for row i is (value - min) / (max - min), 0 at min and 1 at max
IsPosition(i) ==
    LET x == RowValue(i)
        v == Measure(args.datetime_col[i])
        lo == Measure(args.min)
        hi == Measure(args.max)
    IN  /\ x[2] > 0
        /\ x[1] * (hi - lo) = (v - lo) * x[2]
        /\ v = lo => x[1] = 0
        /\ v = hi => x[1] = x[2]

InUnitInterval(x) == x[2] > 0 /\ 0 <= x[1] /\ x[1] <= x[2]

YearDateDone == pc = "done" /\ fn \in {"normalized_current_year", "normalized_current_date"}

\* C10 as stated: with min = max the result is 0 for every row; otherwise it
\* is (value - min) / (max - min), 0 at min, 1 at max, and within [0, 1].
C10_PositionInUnitInterval ==
    YearDateDone =>
        /\ Returned(result)
        /\ \A i \in 1..Len(args.datetime_col) :
              IF Measure(args.min) = Measure(args.max) THEN IsZero(RowValue(i))
              ELSE IsPosition(i) /\ InUnitInterval(RowValue(i))

\* C10 amended: the result is within [0, 1] for the rows whose year or date
\* lies between min and max; the rest of the claim as stated.
C10_Position ==
    YearDateDone =>
        /\ Returned(result)
        /\ \A i \in 1..Len(args.datetime_col) :
              IF Measure(args.min) = Measure(args.max) THEN IsZero(RowValue(i))
              ELSE /\ IsPosition(i)
                   /\ Between(Measure(args.datetime_col[i]), Measure(args.min), Measure(args.max))
                         => InUnitInterval(RowValue(i))

\* C10 witness: a call with min # max has returned a value strictly between
\* 0 and 1 for one row and a value above 1 for a row later than max.
C10_Witness ==
    /\ YearDateDone /\ Returned(result)
    /\ Measure(args.min) < Measure(args.max)
    /\ \E i \in 1..Len(args.datetime_col) :
          0 < RowValue(i)[1] /\ RowValue(i)[1] < RowValue(i)[2]
    /\ \E i \in 1..Len(args.datetime_col) :
          /\ Measure(args.datetime_col[i]) > Measure(args.max)
          /\ RowValue(i)[1] > RowValue(i)[2]

----------------------------------------------------------------------------
(* Claims about day_type *)

DayTypeDone == pc = "done" /\ fn = "day_type" /\ Returned(result)

Flagged(i) == args.holiday_col[1][i] > 0

\* the days on which some row is flagged as a holiday
HolidayDays == {args.datetime_col[i].day : i \in {k \in 1..Len(args.datetime_col) : Flagged(k)}}

\* the day is within semi_holiday_offset of a holiday date
NearHoliday(day) ==
    \E h \in HolidayDays : 2 * Abs(day - h) <= args.semi_holiday_offset2

\* 0 Monday, 2 Tuesday to Thursday, 4 Friday, 5 Saturday, 6 Sunday
BaseCode(day) ==
    CASE day % 7 = 0 -> 0
      [] day % 7 \in {1, 2, 3} -> 2
      [] day % 7 = 4 -> 4
      [] day % 7 = 5 -> 5
      [] day % 7 = 6 -> 6

\* the code the holiday rules give row i
HolidayRule(i) ==
    LET day == args.datetime_col[i].day
    IN  IF Flagged(i) THEN 7
        ELSE IF day \notin HolidayDays /\ NearHoliday(day) THEN 8
        ELSE BaseCode(day)

\* C11 as stated: with a holiday indicator, every flagged row gets 7, every
\* row of a non-holiday date within semi_holiday_offset of a holiday date
\* gets 8, a holiday next to a holiday keeps 7, every other row keeps its
\* day-of-week code, whatever the semi_holiday_offset.
C11_HolidayCodesAnyOffset ==
    (DayTypeDone /\ args.holiday_col # None) =>
        \A i \in 1..Len(args.datetime_col) : result.value[i] = HolidayRule(i)

\* C11 amended: the same, for a semi_holiday_offset that is a whole number
\* of days.
C11_HolidayCodes ==
    (DayTypeDone /\ args.holiday_col # None /\ args.semi_holiday_offset2 % 2 = 0) =>
        \A i \in 1..Len(args.datetime_col) : result.value[i] = HolidayRule(i)

\* C11 witness: a call with the default offset has returned 7 for two
\* holidays on consecutive days, 8 for a row next to a holiday and a
\* day-of-week code for a row further away.
C11_Witness ==
    /\ DayTypeDone /\ args.holiday_col # None /\ args.semi_holiday_offset2 = 2
    /\ \E i, j \in 1..Len(args.datetime_col) :
          /\ Flagged(i) /\ Flagged(j)
          /\ args.datetime_col[j].day = args.datetime_col[i].day + 1
          /\ result.value[i] = 7 /\ result.value[j] = 7
    /\ \E i \in 1..Len(args.datetime_col) : result.value[i] = 8
    /\ \E i \in 1..Len(args.datetime_col) :
          ~Flagged(i) /\ result.value[i] = BaseCode(args.datetime_col[i].day)

IsDaily(col) == \A i \in 1..Len(col) : col[i].hour = 0 /\ col[i].day = col[1].day + i - 1

\* C12: without a holiday indicator, day_type maps Monday to 0, Tuesday,
\* Wednesday and Thursday to 2, Friday to 4, Saturday to 5 and Sunday to 6;
\* daily timestamps from a Monday give 0,2,2,2,4,5,6 repeating, and no other
\* code is produced.
C12_WeekdayCodes ==
    (DayTypeDone /\ args.holiday_col = None) =>
        /\ \A i \in 1..Len(args.datetime_col) :
              /\ result.value[i] = BaseCode(args.datetime_col[i].day)
              /\ result.value[i] \in {0, 2, 4, 5, 6}
        /\ (IsDaily(args.datetime_col) /\ args.datetime_col[1].day % 7 = 0) =>
              \A i \in 1..Len(args.datetime_col) :
                  result.value[i] = <<0, 2, 2, 2, 4, 5, 6>>[((i - 1) % 7) + 1]

\* C12 witness: a call without a holiday indicator on daily timestamps from
\* a Monday has returned more than a week of codes, the second week starting
\* again at 0, 2.
C12_Witness ==
    /\ DayTypeDone /\ args.holiday_col = None
    /\ IsDaily(args.datetime_col) /\ args.datetime_col[1].day % 7 = 0
    /\ Len(args.datetime_col) >= 9
    /\ result.value[7] = 6 /\ result.value[8] = 0 /\ result.value[9] = 2

----------------------------------------------------------------------------
(* Claims about time_of_year *)

\* the days of year y, from the day numbers of two consecutive January 1
DaysInYear(y) == DaysBeforeYear(y + 1) - DaysBeforeYear(y)

HourOfYear(d) == (d.doy - 1) * 24 + d.hour

\* C13: time_of_year is (zero-based hour of year) / (hours in that year - 1),
\* leap years having 366 days: it lies in [0, 1], is 0 at January 1 00:00 and
\* 1 at December 31 23:00 in leap and non-leap years, and does not decrease
\* over the hours of one calendar year.
C13_TimeOfYear ==
    (pc = "done" /\ fn = "time_of_year") =>
        /\ Returned(result)
        /\ \A i \in 1..Len(args.datetime_col) :
              LET d == args.datetime_col[i]
                  x == result.value[i]
              IN  /\ x[2] > 0
                  /\ x[1] * (DaysInYear(d.year) * 24 - 1) = HourOfYear(d) * x[2]
                  /\ 0 <= x[1] /\ x[1] <= x[2]
                  /\ (d.doy = 1 /\ d.hour = 0) => x[1] = 0
                  /\ (d.doy = DaysInYear(d.year) /\ d.hour = 23) => x[1] = x[2]
        /\ \A i, j \in 1..Len(args.datetime_col) :
              (i < j /\ args.datetime_col[i].year = args.datetime_col[j].year) =>
                  result.value[i][1] * result.value[j][2]
                      <= result.value[j][1] * result.value[i][2]

\* C13 witness: a call has returned 1 for December 31 23:00 of a leap year
\* and 0 for the hour after it.
C13_Witness ==
    /\ pc = "done" /\ fn = "time_of_year" /\ Returned(result)
    /\ \E i \in 1..(Len(args.datetime_col) - 1) :
          /\ args.datetime_col[i] = [year |-> 2016, doy |-> 366, hour |-> 23]
          /\ result.value[i][1] = result.value[i][2]
          /\ result.value[i + 1][1] = 0

----------------------------------------------------------------------------
(* Claims about normalized_columns *)

InvalidMode == "ValueError: Valid values for mode are 'log' and 'minmax'"

\* C14: normalized_columns with a mode other than "log" and "minmax" fails
\* with the invalid-argument error and returns no result; with mode "log" or
\* "minmax" it never raises that error.
C14_InvalidMode ==
    (pc = "done" /\ fn = "normalized_columns") =>
        IF args.mode \notin {"log", "minmax"}
        THEN result.raised = InvalidMode /\ result.rows = <<>>
        ELSE result.raised # InvalidMode

\* C14 witness: a call with an unknown mode on a non-empty series has
\* raised the error.
C14_Witness ==
    /\ pc = "done" /\ fn = "normalized_columns"
    /\ args.mode = "zscore" /\ Len(args.datetime_col) >= 2
    /\ result.raised = InvalidMode

----------------------------------------------------------------------------
(* Claims about the offsets of the lag functions *)

LagBase(f) == IF f = "same_week_day_hour_lag" THEN 52 ELSE 365

\* hours of the unit the offsets count: a week or a day
LagUnit(f) == IF f = "same_week_day_hour_lag" THEN 7 * 24 ELSE 24

\* short gap-free series, sampled once per unit
OffsetSeries(f) ==
    {[min |-> 168, n |-> k, freq |-> LagUnit(f), seed |-> 3, order |-> "ascending"] : k \in 1..MaxShortRows}

\* windows far below, just below, at and just above the base period
OffsetWindows(f) == {0, 1, LagBase(f) - 1, LagBase(f), LagBase(f) + 1}

OffsetArgs(f) ==
    {[series |-> s, n_years |-> y, window |-> w, agg_func |-> aq[1], q |-> aq[2],
      output_colname |-> o] :
        s \in OffsetSeries(f), y \in 0..MaxYears, w \in OffsetWindows(f),
        aq \in AggPairs, o \in OutputColnames(f)}

InitOffsets ==
    /\ fn \in LagFns
    /\ args \in OffsetArgs(fn)
    /\ pc = "ready"
    /\ result = NotCalled
    /\ Imported

SpecOffsets == InitOffsets /\ [][NextLag]_vars

LagDone == pc = "done" /\ fn \in LagFns

\* the candidate offsets of the call, and those that got a column
CandidateOffsets == LagAll(LagBase(fn), args.window, args.n_years)

OffsetColumns ==
    LagCols(CandidateOffsets, LagUnit(fn), args.series.min, LastHour(args.series))

Elements(seq) == {seq[k] : k \in 1..Len(seq)}

\* the value of the column of offset o at row i
OffsetCell(o, i) ==
    LagCell(DatetimeCol(args.series), ValueCol(args.series), args.series.min,
            o, LagUnit(fn), i)

\* C15: on gap-free input, an offset o with max - o earlier than min gets
\* no column; any other offset has, at every row t, the series value at
\* t - o when t - o is not earlier than min and a missing value otherwise;
\* the call raises no error (stated for the default aggregation, the mean).
C15_InsufficientHistory ==
    (LagDone /\ args.agg_func = "mean" /\ args.q = None) =>
        /\ Returned(result)
        /\ \A o \in Elements(CandidateOffsets) :
              IF LastHour(args.series) - o * LagUnit(fn) < args.series.min
              THEN o \notin Elements(OffsetColumns)
              ELSE /\ o \in Elements(OffsetColumns)
                   /\ \A i \in 1..args.series.n :
                         LET src == DatetimeCol(args.series)[i] - o * LagUnit(fn)
                         IN  IF src >= args.series.min
                             THEN InSeries(src)
                                  /\ OffsetCell(o, i) = Num(Val(args.series.seed, src))
                             ELSE OffsetCell(o, i) = NaN

\* C17 as stated: the candidate offsets are {52y + k : y in [0, Y), k in
\* [-W, W]} weeks for same_week_day_hour_lag and {365y + k} days for
\* same_day_hour_lag.
C17_OffsetsFromZero ==
    LagDone =>
        Elements(CandidateOffsets) =
            {LagBase(fn) * y + k : y \in 0..(args.n_years - 1),
                                   k \in (-args.window)..args.window}

\* C17 amended: the candidate offsets are {52(y + 1) + k : y in [0, Y), k in
\* [-W, W]} weeks, respectively {365(y + 1) + k} days: the first year's
\* offsets lie around one base period back, not around the row itself.
C17_Offsets ==
    LagDone =>
        Elements(CandidateOffsets) =
            {LagBase(fn) * (y + 1) + k : y \in 0..(args.n_years - 1),
                                         k \in (-args.window)..args.window}

\* C17 witness: a call with n_years = 2 and a window of 1 has finished, its
\* offsets being those around one and around two base periods back.
C17_Witness ==
    /\ LagDone /\ args.n_years = 2 /\ args.window = 1
    /\ CandidateOffsets = <<LagBase(fn) - 1, LagBase(fn), LagBase(fn) + 1,
                            2 * LagBase(fn) - 1, 2 * LagBase(fn), 2 * LagBase(fn) + 1>>

\* C19: with a window smaller than the base period, every observation that
\* contributes to the output at row t has a timestamp strictly earlier than
\* t and not earlier than the minimum of the series.
C19_NoLookAhead ==
    (LagDone /\ Returned(result) /\ args.window < LagBase(fn)) =>
        \A k \in 1..Len(OffsetColumns) : \A i \in 1..args.series.n :
            LET t == DatetimeCol(args.series)[i]
                src == t - OffsetColumns[k] * LagUnit(fn)
            IN  IsNum(OffsetCell(OffsetColumns[k], i)) =>
                    src < t /\ src >= args.series.min

\* C19 witness: a call with the largest window below the base period has
\* returned, the value one unit back contributing to the last row.
C19_Witness ==
    /\ LagDone /\ Returned(result) /\ args.window = LagBase(fn) - 1
    /\ args.agg_func = "mean" /\ args.q = None /\ args.series.n >= 2
    /\ 1 \in Elements(OffsetColumns)
    /\ IsNum(OffsetCell(1, args.series.n))
    /\ IsNum(result.values[args.series.n])

----------------------------------------------------------------------------
(* Claims about gen_sequence *)

GenDone == pc = "done" /\ fn = "gen_sequence"

\* C16: on an n-row table, with start_timestep s and an explicit
\* end_timestep e <= n - 1, gen_sequence yields, in increasing i, exactly the
\* windows of the rows i .. i + L - 1 for i = s .. e - L + 1, each of L rows,
\* and nothing when e - s + 1 < L.  Rows count from 0; row i is df_all[i + 1].
C16_ExplicitEnd ==
    (GenDone /\ args.end_timestep # None /\ args.end_timestep[1] <= Len(args.df_all) - 1) =>
        LET st == args.start_timestep
            e == args.end_timestep[1]
            L == args.seq_len
        IN  /\ Returned(result)
            /\ e - st + 1 < L => result.items = <<>>
            /\ e - st + 1 >= L => Len(result.items) = e - L + 1 - st + 1
            /\ \A k \in 1..Len(result.items) :
                  /\ Len(result.items[k]) = L
                  /\ \A r \in 1..L :
                        result.items[k][r] =
                            RowFeatures(args.df_all[(st + k - 1) + (r - 1) + 1], args.seq_cols)

\* C16 witness: a call with start_timestep 1 and an explicit end_timestep
\* before the last row has yielded several windows of more than one row.
C16_Witness ==
    /\ GenDone /\ args.end_timestep # None
    /\ args.end_timestep[1] < Len(args.df_all) - 1
    /\ args.start_timestep = 1 /\ args.seq_len >= 2
    /\ Len(result.items) >= 2
    /\ result.items[2][1][1] = 2

----------------------------------------------------------------------------
(* Claims about the order of the input rows *)

Orders == {"ascending", "descending", "inner_swapped", "last_second"}

\* the moving-aggregate functions on an hourly series of a little more than
\* a week, its rows in each order
OrderMovingArgs(f) ==
    {[series |-> [min |-> 5, n |-> 168 + k, freq |-> 1, seed |-> 3, order |-> o],
      window_size |-> 1, start_week |-> sw, count |-> 1,
      fct2 |-> 0, agg_func |-> aq[1], q |-> aq[2], output_col_prefix |-> Prefix(f)] :
        k \in 1..MaxOrderRows, o \in Orders, sw \in 0..1, aq \in AggArgs(f)}

\* the lag functions on short series, the window just below the base period
OrderLagArgs(f) ==
    {[series |-> [min |-> 168, n |-> k, freq |-> LagUnit(f), seed |-> 3, order |-> o],
      n_years |-> 1, window |-> LagBase(f) - 1, agg_func |-> aq[1], q |-> aq[2],
      output_colname |-> c] :
        k \in 1..MaxShortRows, o \in Orders, aq \in AggPairs, c \in OutputColnames(f)}

InitOrder ==
    \/ /\ fn \in MovingFns
       /\ \E a \in OrderMovingArgs(fn) : \E t \in FctChoices(a.series) :
              args = [a EXCEPT !.fct2 = t]
       /\ pc = "ready" /\ result = NotCalled /\ Imported
    \/ /\ fn \in LagFns
       /\ args \in OrderLagArgs(fn)
       /\ pc = "ready" /\ result = NotCalled /\ Imported
    \/ InitColumns

NextOrder == NextMoving \/ NextLag \/ NextColumns

SpecOrder == InitOrder /\ [][NextOrder]_vars

\* the call of the state on the rows of a, a pandas build given
ApplyMoving(a, build) ==
    CASE fn = "same_day_hour_moving_average" ->
            same_day_hour_moving_average(DatetimeCol(a.series), ValueCol(a.series),
                a.window_size, a.start_week, a.count, a.fct2, a.output_col_prefix, build)
      [] fn = "same_day_hour_moving_quantile" ->
            same_day_hour_moving_quantile(DatetimeCol(a.series), ValueCol(a.series),
                a.window_size, a.start_week, a.count, a.q, a.fct2, a.output_col_prefix, build)
      [] fn = "same_day_hour_moving_std" ->
            same_day_hour_moving_std(DatetimeCol(a.series), ValueCol(a.series),
                a.window_size, a.start_week, a.count, a.fct2, a.output_col_prefix, build)
      [] fn = "same_day_hour_moving_agg" ->
            same_day_hour_moving_agg(DatetimeCol(a.series), ValueCol(a.series),
                a.window_size, a.start_week, a.count, a.fct2, a.agg_func, a.q,
                a.output_col_prefix, build)

ApplyLag(a, build) ==
    IF fn = "same_week_day_hour_lag"
    THEN same_week_day_hour_lag(DatetimeCol(a.series), ValueCol(a.series), a.n_years,
                                a.window, a.agg_func, a.q, a.output_colname, build)
    ELSE same_day_hour_lag(DatetimeCol(a.series), ValueCol(a.series), a.n_years,
                           a.window, a.agg_func, a.q, a.output_colname, build)

\* the arguments of the call, the rows of the series in ascending order
SortedArgs == [args EXCEPT !.series.order = "ascending"]

\* r associates with every timestamp the value that sorted does
SameByTimestamp(r, sorted) ==
    /\ r.raised = sorted.raised
    /\ Len(r.index) = Len(sorted.index)
    /\ \A i \in 1..Len(r.index) : \A j \in 1..Len(sorted.index) :
          r.index[i] = sorted.index[j] => r.values[i] = sorted.values[j]

\* C18: the order of the input rows of a gap-free series is no error and
\* changes no result: normalized_columns and the same_day_hour_moving_*
\* functions return their rows in ascending timestamp order with the values
\* they return for the sorted input, and the lag functions associate with
\* each timestamp the value they do for the sorted input.
C18_OrderIndependent ==
    /\ (pc = "done" /\ fn \in MovingFns) =>
          \E build \in AsfreqBuilds : result = ApplyMoving(SortedArgs, build)
    /\ (pc = "done" /\ fn \in LagFns) =>
          \E build \in EmptyQuantileBuilds :
              SameByTimestamp(result, ApplyLag(SortedArgs, build))
    /\ (pc = "done" /\ fn = "normalized_columns") =>
          LET n == Len(args.datetime_col)
              rows == SortIndex([i \in 1..n |-> [t |-> args.datetime_col[i],
                                                 value |-> args.value_col[i]]])
          IN  /\ result = normalized_columns([i \in 1..n |-> rows[i].t],
                                             [i \in 1..n |-> rows[i].value], args.mode)
              /\ \A i \in 1..(Len(result.rows) - 1) :
                    result.rows[i].t < result.rows[i + 1].t

====
